---- MODULE Spec2Model ----
(***************************************************************************)
(* Model of src/generate_video_from_api.py: the slideshow compiler         *)
(* (build_slideshow_ffmpeg), the pipeline that drives it (main), the       *)
(* caption path (synthesize_tts_with_subs, _ticks_to_vtt_ts, vtt_to_srt)   *)
(* and the title wrap of create_thumbnail.                                 *)
(*                                                                         *)
(* Units.  Durations measured by ffprobe are integers of microseconds      *)
(* (ffprobe prints six decimals); the "-t" values of the encoder command   *)
(* are integers of milliseconds (the code formats them with three          *)
(* decimals); edge-tts offsets and durations are integers of 100 ns ticks. *)
(***************************************************************************)
EXTENDS Integers, Sequences, FiniteSets, TLC

VARIABLES
    pc,             \* position of the running call
    files,          \* the files that exist (output/ and assets/)
    show_captions,  \* SHOW_CAPTIONS
    logo_style,     \* LOGO_POS, LOGO_MARGIN and the size of the scaled logo
    photos,         \* product_photos, as returned by fetch_product_details
    idx,            \* position of main's image loop (enumerate, start=1)
    fetched,        \* outcome of each fetch_image_as_png so far: "ok" / "fail"
    image_files,    \* main's img_files / build_slideshow_ffmpeg's image_files
    probe_stdout,   \* what ffprobe printed for the narration file
    issued,         \* the commands handed to run(), in order
    err,            \* the exception that ended the run, "" when none
    printed,        \* what log, dprint and print have written so far
    title,          \* the product title, as the rendered widths of its words
    title_lines,    \* create_thumbnail's lines, each a list of word widths
    music_seen,     \* results of os.path.exists(music_path) in a stepwise call
    consumed,       \* chunks delivered so far by communicate.stream()
    cues,           \* synthesize_tts_with_subs' cues list
    blocks,         \* the blocks a subtitle source was written from
    vtt,            \* lines of the file at VTT_PATH
    srt             \* lines of the file at SRT_PATH

vars == <<pc, files, show_captions, logo_style, photos, idx, fetched,
          image_files, probe_stdout, issued, err, printed, title,
          title_lines, music_seen, consumed, cues, blocks, vtt, srt>>

cfgVars == <<show_captions, logo_style>>
mainVars == <<photos, idx, fetched>>
thumbVars == <<title, title_lines>>
cueVars == <<consumed, cues, blocks, vtt, srt>>

(***************************************************************************)
(* Bounds of the model.                                                    *)
(***************************************************************************)
MaxImages == 6
MaxPhotos == 7

Max(a, b) == IF a >= b THEN a ELSE b
Min(a, b) == IF a <= b THEN a ELSE b
Abs(a) == IF a >= 0 THEN a ELSE 0 - a

(***************************************************************************)
(* Python floats, as far as the duration code needs them: a finite number  *)
(* of microseconds, nan, inf or -inf.  "garbage" is text float() rejects.  *)
(***************************************************************************)
Num(us) == [kind |-> "num", us |-> us]
NaN == [kind |-> "nan", us |-> 0]
PosInf == [kind |-> "inf", us |-> 0]
NegInf == [kind |-> "ninf", us |-> 0]
Garbage == [kind |-> "garbage", us |-> 0]

\* a < b on floats: every comparison with nan is False
FloatLt(a, b) ==
    IF a.kind = "nan" \/ b.kind = "nan" THEN FALSE
    ELSE IF a.kind = "ninf" THEN b.kind # "ninf"
    ELSE IF b.kind = "inf" THEN a.kind # "inf"
    ELSE IF a.kind = "inf" \/ b.kind = "ninf" THEN FALSE
    ELSE a.us < b.us

\* Python's min(a, b): the first argument unless the second is smaller
PyMin(a, b) == IF FloatLt(b, a) THEN b ELSE a
\* Python's max(a, b): the first argument unless the second is greater
PyMax(a, b) == IF FloatLt(a, b) THEN b ELSE a

DefaultDurUs == 24000000
MinDurUs == 18000000
MaxDurUs == 40000000

\* try: dur = float(probe.stdout.strip())  except Exception: dur = 24.0
ProbeDur(p) == IF p.kind = "garbage" THEN Num(DefaultDurUs) ELSE p

ClampDurNoFloor(d) == PyMin(Num(MaxDurUs), d)
\* dur = max(18.0, min(40.0, dur))
ClampDur(d) == PyMax(Num(MinDurUs), PyMin(Num(MaxDurUs), d))

\* num/den rounded to the nearest integer.  At an exact tie the double nearest
\* to the quotient decides in the code; half-even is written here, and the
\* input sets of this module hold no tie.
RoundDiv(num, den) ==
    LET q == num \div den
        r == num % den
    IN  IF 2 * r < den THEN q
        ELSE IF 2 * r > den THEN q + 1
        ELSE IF q % 2 = 0 THEN q ELSE q + 1

\* per = dur / max(1, len(image_files)), as written into the command by
\* f"{per:.3f}": milliseconds
PerSlideMs(durUs, n) == RoundDiv(durUs, 1000 * Max(1, n))

(***************************************************************************)
(* The encoder command build_slideshow_ffmpeg assembles.                   *)
(*   input: one "-i" of the command; t is the "-t" value in milliseconds   *)
(*          (NoT when the input has none)                                  *)
(*   pad:   a stream label of the filter graph: [k |-> "in_v", i |-> 3] is *)
(*          "[3:v]", "in_a" is "[3:a]", [k |-> "v", i |-> 3] is "[v3]",    *)
(*          the others are the named labels "[vout]", "[vsub]", ...        *)
(*   node:  one filter chain of -filter_complex, with the labels it reads  *)
(*          and the label it writes; n is concat's n or amix's inputs, vol *)
(*          is volume's factor in hundredths, duration is amix's duration  *)
(*          option, x and y are overlay's position expressions             *)
(***************************************************************************)
NoT == 0 - 1
Path(name, n) == [name |-> name, n |-> n]
\* os.path.join(OUTPUT_DIR, f"frame_{idx}.png")
FramePath(i) == Path("output/frame.png", i)
AUDIO_PATH == Path("output/voice.mp3", 0)
BG_MUSIC_PATH == Path("assets/music.mp3", 0)
LOGO_PATH == Path("assets/logo.png", 0)
VTT_PATH == Path("output/voice.vtt", 0)
SRT_PATH == Path("output/voice.srt", 0)
RAW_PATH == Path("output/raw.mp4", 0)
FINAL_PATH == Path("output/video.mp4", 0)
THUMBNAIL == Path("output/thumbnail.jpg", 0)

Input(role, file, t) == [role |-> role, file |-> file, t |-> t]
Pad(k, i) == [k |-> k, i |-> i]
\* An overlay position: "{margin}" (form "m"), "W-w-{margin}" or
\* "H-h-{margin}"
Expr(form, margin) == [form |-> form, margin |-> margin]
NoExpr == Expr("", 0)

Node(op, ins, out, n) ==
    [op |-> op, ins |-> ins, out |-> out, n |-> n, vol |-> 0, duration |-> "",
     x |-> NoExpr, y |-> NoExpr]

\* volume=0.15, in hundredths
MusicVolume == 15

AudioMixMusicFirst(n, music) ==
    IF music
    THEN <<[Node("volume", <<Pad("in_a", n + 1)>>, Pad("am", 0), 0)
              EXCEPT !.vol = MusicVolume],
           [Node("amix", <<Pad("am", 0), Pad("in_a", n)>>, Pad("aout", 0), 2)
              EXCEPT !.duration = "first"]>>
    ELSE <<Node("anull", <<Pad("in_a", n)>>, Pad("aout", 0), 0)>>
\* audio mix: "[n+1:a]volume=0.15[am];[n:a][am]amix=inputs=2:duration=first:
\* dropout_transition=2[aout]" with music, "[n:a]anull[aout]" without
AudioMix(n, music) ==
    IF music
    THEN <<[Node("volume", <<Pad("in_a", n + 1)>>, Pad("am", 0), 0)
              EXCEPT !.vol = MusicVolume],
           [Node("amix", <<Pad("in_a", n), Pad("am", 0)>>, Pad("aout", 0), 2)
              EXCEPT !.duration = "first"]>>
    ELSE <<Node("anull", <<Pad("in_a", n)>>, Pad("aout", 0), 0)>>

LogoIdxAfterMusic(n, music) == n + 2
\* logo_idx = len(image_files) + (2 if (music_path and os.path.exists(music_path)) else 1)
LogoIdx(n, music) == n + (IF music THEN 2 ELSE 1)

\* The reads of the environment one call makes.  music1, music2, music3 are the
\* three evaluations of "music_path and os.path.exists(music_path)", in the
\* order the code makes them.
CallEnv(probe, music1, music2, music3, srtFile, logoFile, captions, style) ==
    [probe |-> probe, music1 |-> music1, music2 |-> music2, music3 |-> music3,
     srt |-> srtFile, logo |-> logoFile, captions |-> captions,
     style |-> style]

\* The logo settings: LOGO_POS as its characters, LOGO_MARGIN, and the size
\* w x h of the logo once scaled to LOGO_WIDTH
LogoStyle(pos, margin, w, h) ==
    [pos |-> pos, margin |-> margin, w |-> w, h |-> h]
\* LOGO_POS "tr", LOGO_MARGIN 28, LOGO_WIDTH 220 (a square logo)
DefaultLogo == LogoStyle(<<"t", "r">>, 28, 220, 220)

\* pos = LOGO_POS.lower(), on the letters of this model
PosLower(pos) ==
    [i \in 1..Len(pos) |->
        CASE pos[i] = "T" -> "t"
          [] pos[i] = "L" -> "l"
          [] pos[i] = "B" -> "b"
          [] pos[i] = "R" -> "r"
          [] OTHER -> pos[i]]

\* "c" in pos
InPos(c, pos) == \E i \in 1..Len(pos) : PosLower(pos)[i] = c

x_exprAlwaysLeft(pos, margin) == Expr("m", margin)
\* x_expr = f"{LOGO_MARGIN}" if "l" in pos else f"W-w-{LOGO_MARGIN}"
x_expr(pos, margin) ==
    IF InPos("l", pos) THEN Expr("m", margin) ELSE Expr("W-w-m", margin)
\* y_expr = f"{LOGO_MARGIN}" if "t" in pos else f"H-h-{LOGO_MARGIN}"
y_expr(pos, margin) ==
    IF InPos("t", pos) THEN Expr("m", margin) ELSE Expr("H-h-m", margin)

BurnWhenEnabled(captions, srtExists) == captions
\* if SHOW_CAPTIONS and os.path.exists(srt_path)
BurnSubtitles(captions, srtExists) == captions /\ srtExists

\* build_slideshow_ffmpeg up to the call of run(cmd): the command, with the
\* locals dur (microseconds) and per (milliseconds) kept beside it.
build_slideshow_ffmpeg(imgs, narration_mp3, env) ==
    LET n == Len(imgs)
        dur == ClampDur(ProbeDur(env.probe))
        per == PerSlideMs(dur.us, n)
        loops == [i \in 1..n |-> Input("image", imgs[i], per)]
        cmd1 == loops \o <<Input("narration", narration_mp3, NoT)>>
        cmd2 == IF env.music1
                THEN cmd1 \o <<Input("music", BG_MUSIC_PATH, NoT)>>
                ELSE cmd1
        vf_parts == [i \in 1..n |->
                        Node("scale_pad_setsar", <<Pad("in_v", i - 1)>>,
                             Pad("v", i - 1), 0)]
        concat == Node("concat", [i \in 1..n |-> Pad("v", i - 1)],
                       Pad("vout", 0), n)
        burn == BurnSubtitles(env.captions, env.srt)
        vsub == IF burn
                THEN <<Node("subtitles", <<Pad("vout", 0)>>, Pad("vsub", 0), 0)>>
                ELSE <<>>
        v1 == IF burn THEN Pad("vsub", 0) ELSE Pad("vout", 0)
        have_logo == env.logo
        logo_idx == LogoIdx(n, env.music2)
        cmd3 == IF have_logo
                THEN cmd2 \o <<Input("logo", LOGO_PATH, NoT)>>
                ELSE cmd2
        vlogo == IF have_logo
                 THEN <<Node("logo_scale", <<Pad("in_v", logo_idx)>>,
                             Pad("logo", 0), env.style.w),
                        [Node("overlay", <<v1, Pad("logo", 0)>>,
                              Pad("vlogo", 0), 0)
                           EXCEPT !.x = x_expr(env.style.pos, env.style.margin),
                                  !.y = y_expr(env.style.pos, env.style.margin)]>>
                 ELSE <<>>
        v_current == IF have_logo THEN Pad("vlogo", 0) ELSE v1
        af == AudioMix(n, env.music3)
    IN  [inputs |-> cmd3,
         vf |-> vf_parts \o <<concat>> \o vsub \o vlogo,
         af |-> af,
         vmap |-> v_current,
         amap |-> Pad("aout", 0),
         out |-> RAW_PATH,
         dur |-> dur,
         per |-> per]

(***************************************************************************)
(* A call of build_slideshow_ffmpeg: ffprobe prints the narration's        *)
(* duration, the command is assembled, and run(cmd) hands it to the        *)
(* encoder, raising RuntimeError when the encoder returns a non-zero code. *)
(* A successful encoder run leaves the file at out_path.                   *)
(***************************************************************************)
\* What ffprobe may print for the narration file.
ProbeOutputs ==
    {Garbage, NaN, PosInf, NegInf}
    \cup {Num(us) : us \in {0 - 1000000, 10000000, 17999999, 18000000,
                            18000001, 25000000, 31415900, 39999999,
                            40000000, 40000001, 50000000}}

Exists(path) == path \in files

\* A line written by log, dprint or print (DEBUG is on, its default): how it is
\* written, the stage it is about, and the text it begins with.  The line the
\* bootstrap prints for an exception is kept in err.
Msg(level, about, text) == [level |-> level, about |-> about, text |-> text]

\* run(cmd): dprint("RUN:", ...), and the encoder's output when it fails
RunPrints(returncode) ==
    {Msg("debug", "encoder", "RUN:")}
    \cup (IF returncode # 0
          THEN {Msg("print", "encoder", "proc.stdout"),
                Msg("print", "encoder", "proc.stderr")}
          ELSE {})

BuildSlideshow ==
    /\ pc = "build"
    /\ \E probe \in ProbeOutputs, returncode \in {0, 1} :
          /\ probe_stdout' = probe
          /\ issued' = Append(issued,
                          build_slideshow_ffmpeg(image_files, AUDIO_PATH,
                              CallEnv(probe, Exists(BG_MUSIC_PATH),
                                      Exists(BG_MUSIC_PATH),
                                      Exists(BG_MUSIC_PATH), Exists(SRT_PATH),
                                      Exists(LOGO_PATH), show_captions,
                                      logo_style)))
          /\ IF returncode # 0
             THEN pc' = "failed" /\ err' = "Command failed" /\ files' = files
             ELSE pc' = "built" /\ err' = err /\ files' = files \cup {RAW_PATH}
          /\ printed' = printed \cup RunPrints(returncode)
    /\ UNCHANGED <<cfgVars, image_files, mainVars, cueVars, thumbVars,
                   music_seen>>

(***************************************************************************)
(* Text.  A line is a sequence of tokens; a token is a record:             *)
(*   c = "sp"      one whitespace character other than a newline           *)
(*   c = "nl"      "\n"                                                    *)
(*   c = "arrow"   the three characters "-->"                              *)
(*   c = "WEBVTT"  a word that begins with the six characters "WEBVTT"     *)
(*   c = "ts."     a timestamp HH:MM:SS.mmm; h, m are its hour and minute  *)
(*                 fields and ms its seconds field in milliseconds         *)
(*   c = "ts,"     the same with a comma before the milliseconds           *)
(*   c = "idx"     a decimal number (ms holds it)                          *)
(*   any other c   that word, which holds no whitespace, digit, colon,     *)
(*                 "-->" and does not begin with "WEBVTT"                  *)
(***************************************************************************)
Tok(c) == [c |-> c, h |-> 0, m |-> 0, ms |-> 0]
Stamp(sep, h, m, ms) == [c |-> sep, h |-> h, m |-> m, ms |-> ms]
SP == Tok("sp")
NL == Tok("nl")
ARROW == Tok("arrow")

IsSpace(t) == t.c \in {"sp", "nl"}

RECURSIVE LStrip(_)
LStrip(s) == IF s # <<>> /\ IsSpace(Head(s)) THEN LStrip(Tail(s)) ELSE s

RECURSIVE RStrip(_)
RStrip(s) ==
    IF s # <<>> /\ IsSpace(s[Len(s)]) THEN RStrip(SubSeq(s, 1, Len(s) - 1)) ELSE s

\* str.strip()
Strip(s) == RStrip(LStrip(s))

\* "\n".join(lines)
RECURSIVE JoinLines(_)
JoinLines(lines) ==
    IF lines = <<>> THEN <<>>
    ELSE IF Len(lines) = 1 THEN lines[1]
    ELSE lines[1] \o <<NL>> \o JoinLines(Tail(lines))

\* [ln.rstrip("\n") for ln in f]: the lines of a text file, as iteration over
\* the file yields them (text after the last "\n" is a line only if not empty)
RECURSIVE FileLines(_, _)
FileLines(text, cur) ==
    IF text = <<>> THEN (IF cur = <<>> THEN <<>> ELSE <<cur>>)
    ELSE IF Head(text) = NL THEN <<cur>> \o FileLines(Tail(text), <<>>)
    ELSE FileLines(Tail(text), Append(cur, Head(text)))

\* f.write("\n".join(lines)) followed by a later read of the file
WrittenLines(lines) == FileLines(JoinLines(lines), <<>>)

(***************************************************************************)
(* _ticks_to_vtt_ts and synthesize_tts_with_subs.                          *)
(***************************************************************************)
TicksPerSecond == 10000000
TicksPerMs == 10000

\* total_seconds = ticks / 10_000_000.0; h = int(total_seconds // 3600);
\* m = int((total_seconds % 3600) // 60); s = total_seconds % 60; the result is
\* f"{h:02d}:{m:02d}:{s:06.3f}".  The hour and the minute are taken from the
\* whole minutes (ticks // 600_000_000), which equals the code's floor
\* divisions for ticks >= 0; the seconds field is rounded to milliseconds by
\* the format and can therefore read 60.000.
SecondsFieldMs(ticks) == RoundDiv(ticks % (60 * TicksPerSecond), TicksPerMs)

ticks_to_vtt_ts(ticks) ==
    LET minutes == ticks \div (60 * TicksPerSecond)
    IN  Stamp("ts.", minutes \div 60, minutes % 60, SecondsFieldMs(ticks))

\* The instant a timestamp denotes, in milliseconds
Instant(ts) == (ts.h * 60 + ts.m) * 60000 + ts.ms

Chunk(type, offset, duration, text) ==
    [type |-> type, offset |-> offset, duration |-> duration, text |-> text]

\* typ.lower(), on the chunk types of this model
Lower(typ) ==
    CASE typ = "SentenceBoundary" -> "sentenceboundary"
      [] typ = "WordBoundary" -> "wordboundary"
      [] OTHER -> typ

CueEndNoFloor(start, dur) == start + dur
\* end = start + max(dur, 1)
CueEnd(start, dur) == start + Max(dur, 1)

\* the body of "async for chunk in communicate.stream()": the cues list after
\* the chunk (audio chunks only write bytes to the audio file)
OnChunk(cs, chunk) ==
    IF chunk.type = "audio" THEN cs
    ELSE IF Lower(chunk.type) = "sentenceboundary"
         THEN LET start == chunk.offset
                  end == CueEnd(start, chunk.duration)
                  txt == Strip(chunk.text)
              IN  IF txt # <<>>
                  THEN Append(cs, [start |-> start, end |-> end, txt |-> txt])
                  ELSE cs
         ELSE cs

RECURSIVE CueLines(_)
CueLines(cs) ==
    IF cs = <<>> THEN <<>>
    ELSE <<<<ticks_to_vtt_ts(cs[1].start), SP, ARROW, SP,
             ticks_to_vtt_ts(cs[1].end)>>,
           cs[1].txt,
           <<>>>> \o CueLines(Tail(cs))

\* lines = ["WEBVTT", ""] followed by three lines per cue
VttLines(cs) == <<<<Tok("WEBVTT")>>, <<>>>> \o CueLines(cs)

(***************************************************************************)
(* vtt_to_srt.                                                             *)
(***************************************************************************)
\* ln.strip() == ""
IsBlank(ln) == \A i \in 1..Len(ln) : IsSpace(ln[i])

\* Split into cue blocks by blank lines
RECURSIVE SplitEntries(_, _, _)
SplitEntries(lines, entries, buf) ==
    IF lines = <<>>
    THEN (IF buf # <<>> THEN Append(entries, buf) ELSE entries)
    ELSE IF IsBlank(Head(lines)) /\ buf # <<>>
         THEN SplitEntries(Tail(lines), Append(entries, buf), <<>>)
         ELSE SplitEntries(Tail(lines), entries, Append(buf, Head(lines)))

\* "-->" in ln
HasArrow(ln) == \E i \in 1..Len(ln) : ln[i] = ARROW

\* ts_re matches at token i and ends at token j: a dotted timestamp, \s*, "-->",
\* \s*, a dotted timestamp
TsMatch(ln, i, j) ==
    /\ ln[i].c = "ts."
    /\ ln[j].c = "ts."
    /\ \E a \in (i + 1)..(j - 1) :
          /\ ln[a] = ARROW
          /\ \A k \in ((i + 1)..(j - 1)) \ {a} : IsSpace(ln[k])

TsMatches(ln) ==
    {<<i, j>> \in (1..Len(ln)) \X (1..Len(ln)) : i < j /\ TsMatch(ln, i, j)}

\* ts_re.search(ln): the leftmost match
TsSearch(ln) ==
    CHOOSE p \in TsMatches(ln) : \A q \in TsMatches(ln) : p[1] <= q[1]

\* fix_ts: ts.replace(".", ",")
fix_ts(ts) == IF ts.c = "ts." THEN [ts EXCEPT !.c = "ts,"] ELSE ts

\* times = f"{s} --> {e}"
SrtTimes(ln) ==
    LET p == TsSearch(ln)
    IN  <<fix_ts(ln[p[1]]), SP, ARROW, SP, fix_ts(ln[p[2]])>>

\* ln.startswith("WEBVTT")
StartsWithWEBVTT(ln) == ln # <<>> /\ ln[1].c = "WEBVTT"

\* "for ln in chunk": times (<<>> is None) and text_lines after the chunk
RECURSIVE ScanChunk(_, _, _)
ScanChunk(chunk, times, text_lines) ==
    IF chunk = <<>> THEN [times |-> times, text_lines |-> text_lines]
    ELSE LET ln == Head(chunk)
         IN  IF HasArrow(ln)
             THEN ScanChunk(Tail(chunk),
                            IF TsMatches(ln) # {} THEN SrtTimes(ln) ELSE times,
                            text_lines)
             ELSE IF ln # <<>> /\ ~StartsWithWEBVTT(ln)
                  THEN ScanChunk(Tail(chunk), times, Append(text_lines, ln))
                  ELSE ScanChunk(Tail(chunk), times, text_lines)

IdxLine(i) == <<[c |-> "idx", h |-> 0, m |-> 0, ms |-> i]>>

\* "for chunk in entries": the list out
RECURSIVE EmitEntries(_, _, _)
EmitEntries(entries, i, out) ==
    IF entries = <<>> THEN out
    ELSE LET r == ScanChunk(Head(entries), <<>>, <<>>)
         IN  IF r.times # <<>> /\ r.text_lines # <<>>
             THEN EmitEntries(Tail(entries), i + 1,
                              out \o <<IdxLine(i), r.times>> \o r.text_lines
                                  \o <<<<>>>>)
             ELSE EmitEntries(Tail(entries), i, out)

\* the lines vtt_to_srt writes to srt_path, given the lines of vtt_path
vtt_to_srt(lines) == EmitEntries(SplitEntries(lines, <<>>, <<>>), 1, <<>>)

(***************************************************************************)
(* Inputs of the caption path.                                             *)
(***************************************************************************)
MaxChunks == 3
MaxBlocks == 2

Hello == <<Tok("Hello")>>
PaddedHi == <<SP, Tok("Hi"), SP>>

\* Chunks communicate.stream() may deliver
Chunks ==
    {Chunk("audio", 0, 0, <<>>),
     Chunk("WordBoundary", 10000000, 3000000, Hello),
     Chunk("SentenceBoundary", 10000000, 15000000, Hello),
     Chunk("SentenceBoundary", 0, 15000000, PaddedHi),
     Chunk("SentenceBoundary", 10000000, 0, Hello),
     Chunk("sentenceboundary", 30000000, 15000000, Hello),
     Chunk("SentenceBoundary", 599996000, 6000, Hello),
     Chunk("SentenceBoundary", 0, 0, <<>>),
     Chunk("SentenceBoundary", 30000000, 15000000, <<SP>>),
     Chunk("SentenceBoundary", 45000000, 0 - 5, PaddedHi)}

Streams == UNION {[1..n -> Chunks] : n \in 0..MaxChunks}

\* The streams a pipeline run is checked with
MainStreams ==
    {<<>>,
     <<Chunk("audio", 0, 0, <<>>),
       Chunk("SentenceBoundary", 10000000, 15000000, Hello)>>}

\* the cues list once the stream has ended
RECURSIVE CollectCues(_, _)
CollectCues(chunks, cs) ==
    IF chunks = <<>> THEN cs
    ELSE CollectCues(Tail(chunks), OnChunk(cs, Head(chunks)))

\* synthesize_tts_with_subs: the audio file is opened, the stream is consumed,
\* and the caption file is written.  The stream can raise (it is a network
\* client); the audio file is then left behind and no caption file is written.
SynthesizeTts(streams) ==
    /\ pc = "tts"
    /\ \E chunks \in streams, raised \in BOOLEAN :
          /\ consumed' = chunks
          /\ cues' = CollectCues(chunks, <<>>)
          /\ IF raised
             THEN /\ pc' = "failed"
                  /\ err' = "tts"
                  /\ files' = files \cup {AUDIO_PATH}
                  /\ vtt' = vtt
             ELSE /\ pc' = "srt"
                  /\ err' = err
                  /\ files' = files \cup {AUDIO_PATH, VTT_PATH}
                  /\ vtt' = WrittenLines(VttLines(cues'))
    /\ UNCHANGED <<cfgVars, mainVars, image_files, probe_stdout, issued,
                   printed, blocks, srt, thumbVars, music_seen>>

\* vtt_to_srt(VTT_PATH, SRT_PATH)
VttToSrt ==
    /\ pc = "srt"
    /\ Exists(VTT_PATH)
    /\ srt' = WrittenLines(vtt_to_srt(vtt))
    /\ files' = files \cup {SRT_PATH}
    /\ pc' = "images"
    /\ UNCHANGED <<cfgVars, mainVars, image_files, probe_stdout, issued,
                   err, printed, consumed, cues, blocks, vtt, thumbVars,
                   music_seen>>

(***************************************************************************)
(* create_thumbnail: the title wrap.  A word is its rendered width in      *)
(* pixels at the title font; a line is a list of words.                    *)
(***************************************************************************)
\* W = 1280
ThumbW == 1280
\* max_w = int(W*0.92)
max_w == (ThumbW * 92) \div 100

RECURSIVE SumWidths(_)
SumWidths(ws) == IF ws = <<>> THEN 0 ELSE Head(ws) + SumWidths(Tail(ws))

\* draw.textlength(" ".join(ws), font=title_font): the widths of the words and
\* of the spaces between them (22 pixels each at size 64)
textlength(ws) ==
    IF ws = <<>> THEN 0 ELSE SumWidths(ws) + 22 * (Len(ws) - 1)

\* "for w in words": lines and cur after the words
RECURSIVE WrapWords(_, _, _)
WrapWords(words, ls, cur) ==
    IF words = <<>> THEN [lines |-> ls, cur |-> cur]
    ELSE LET w == Head(words)
             trial == Append(cur, w)
         IN  IF textlength(trial) <= max_w
             THEN WrapWords(Tail(words), ls, trial)
             ELSE WrapWords(Tail(words), Append(ls, cur), <<w>>)

\* the naive wrap: the loop, "if cur: lines.append(...)", lines = lines[:3]
WrapTitle(words) ==
    LET r == WrapWords(words, <<>>, <<>>)
        all == IF r.cur # <<>> THEN Append(r.lines, r.cur) ELSE r.lines
    IN  SubSeq(all, 1, Min(3, Len(all)))

\* create_thumbnail(hero, title, BRAND_NAME, THUMBNAIL): the hero fetch can
\* raise; otherwise the title is wrapped and the image is saved
CreateThumbnail ==
    /\ pc = "thumbnail"
    /\ \E hero \in BOOLEAN :
          IF ~hero
          THEN pc' = "failed" /\ err' = "thumbnail" /\ files' = files
               /\ title_lines' = title_lines
          ELSE pc' = "done" /\ err' = err /\ files' = files \cup {THUMBNAIL}
               /\ title_lines' = WrapTitle(title)
    /\ UNCHANGED <<cfgVars, title, mainVars, image_files, probe_stdout, issued,
                   printed, cueVars, music_seen>>

(***************************************************************************)
(* main.                                                                   *)
(***************************************************************************)
\* s[lo:hi]
PySlice(s, lo, hi) == SubSeq(s, lo + 1, Min(hi, Len(s)))

\* [hero] + photos[1:6], where hero is photos[0]
Urls(ps) == <<ps[1]>> \o PySlice(ps, 1, 6)

\* main up to ensure_bg_music(): sys.exit without RAPIDAPI_KEY; without the
\* music file ensure_bg_music reads BG_MUSIC_URL, which is not defined
Start ==
    /\ pc = "start"
    /\ \E key \in BOOLEAN :
          /\ IF ~key
             THEN pc' = "failed" /\ err' = "Missing RAPIDAPI_KEY"
             ELSE IF ~Exists(BG_MUSIC_PATH)
                  THEN pc' = "failed" /\ err' = "name 'BG_MUSIC_URL' is not defined"
                  ELSE pc' = "search" /\ err' = err
          /\ printed' = printed
                \cup {Msg("log", "run", "=== Amazon Video Bot ===")}
                \cup (IF key /\ ~Exists(BG_MUSIC_PATH)
                      THEN {Msg("log", "music", "[INFO] Downloading")}
                      ELSE {})
    /\ UNCHANGED <<files, cfgVars, mainVars, image_files, probe_stdout,
                   issued, cueVars, thumbVars, music_seen>>

\* search_random_product: an ASIN, or RuntimeError
SearchProduct ==
    /\ pc = "search"
    /\ \E found \in BOOLEAN :
          /\ IF found
             THEN pc' = "details" /\ err' = err
             ELSE pc' = "failed" /\ err' = "Search returned no products"
          /\ printed' = printed
                \cup {Msg("debug", "product",
                          IF found THEN "Selected ASIN" ELSE "No products for")}
    /\ UNCHANGED <<files, cfgVars, mainVars, image_files, probe_stdout,
                   issued, cueVars, thumbVars, music_seen>>

\* fetch_product_details: raises without photos
FetchDetails ==
    /\ pc = "details"
    /\ \E n \in 0..MaxPhotos :
          IF n = 0
          THEN /\ pc' = "failed" /\ err' = "No product photos"
               /\ photos' = photos /\ printed' = printed
          ELSE /\ pc' = "reviews" /\ err' = err
               /\ photos' = [i \in 1..n |-> i]
               /\ printed' = printed
                     \cup {Msg("log", "product", "=== Product Selected ===")}
    /\ UNCHANGED <<files, cfgVars, idx, fetched, image_files,
                   probe_stdout, issued, cueVars, thumbVars, music_seen>>

\* reviews -> script: a failed reviews fetch is absorbed; the features fetch
\* that replaces an empty review list is not guarded
BuildScript ==
    /\ pc = "reviews"
    /\ \E reviews \in BOOLEAN, reviewsRaise \in BOOLEAN,
          featuresRaise \in BOOLEAN :
          /\ reviewsRaise => ~reviews
          /\ IF ~reviews /\ featuresRaise
             THEN pc' = "failed" /\ err' = "features"
             ELSE pc' = "tts" /\ err' = err
          /\ printed' = printed
                \cup (IF reviewsRaise
                      THEN {Msg("debug", "reviews", "Reviews fetch failed")}
                      ELSE {})
                \cup (IF ~reviews /\ featuresRaise
                      THEN {}
                      ELSE {Msg("log", "narration", "=== Narration ===")})
    /\ UNCHANGED <<files, cfgVars, mainVars, image_files, probe_stdout,
                   issued, cueVars, thumbVars, music_seen>>

ImgFilesAppendAlways(fs, i, ok) == Append(fs, FramePath(i))
\* try: fetch_image_as_png(...); img_files.append(fp)  except Exception: skip
ImgFilesAfter(fs, i, ok) == IF ok THEN Append(fs, FramePath(i)) ELSE fs

\* one pass of "for idx, url in enumerate([hero] + photos[1:6], start=1)"
FetchImage ==
    /\ pc = "images"
    /\ idx <= Len(Urls(photos))
    /\ \E ok \in BOOLEAN :
          /\ image_files' = ImgFilesAfter(image_files, idx, ok)
          /\ fetched' = Append(fetched, IF ok THEN "ok" ELSE "fail")
          /\ files' = IF ok THEN files \cup {FramePath(idx)} ELSE files
          /\ printed' = IF ok THEN printed
                        ELSE printed \cup {Msg("debug", "image", "Image skip")}
    /\ idx' = idx + 1
    /\ UNCHANGED <<pc, cfgVars, photos, probe_stdout, issued, err,
                   cueVars, thumbVars, music_seen>>

\* the loop has ended: if not img_files: raise RuntimeError(...)
CheckImages ==
    /\ pc = "images"
    /\ idx > Len(Urls(photos))
    /\ IF image_files = <<>>
       THEN pc' = "failed" /\ err' = "No images to build video"
       ELSE pc' = "build" /\ err' = err
    /\ UNCHANGED <<files, cfgVars, mainVars, image_files, probe_stdout,
                   issued, printed, cueVars, thumbVars, music_seen>>

\* os.replace(RAW_PATH, FINAL_PATH); create_thumbnail (the hero fetch can
\* raise); the metadata file when WRITE_METADATA_TXT.  The metadata block
\* (lines 672-676) is indented one column deeper than the rest of main; it is
\* read here as the last statement of main.
Finish ==
    /\ pc = "built"
    /\ \E thumb \in BOOLEAN, metadata \in BOOLEAN :
          LET moved == (files \ {RAW_PATH}) \cup {FINAL_PATH}
          IN  IF ~thumb
              THEN /\ pc' = "failed" /\ err' = "thumbnail"
                   /\ files' = moved /\ printed' = printed
                   /\ title_lines' = title_lines
              ELSE /\ pc' = "done"
                   /\ err' = err
                   /\ title_lines' = WrapTitle(title)
                   /\ files' = moved \cup {THUMBNAIL}
                        \cup (IF metadata
                              THEN {Path("output/metadata.txt", 0)}
                              ELSE {})
                   /\ printed' = printed
                        \cup {Msg("log", "thumbnail", "Thumbnail written to:"),
                              Msg("log", "video", "Video written to:")}
                        \cup (IF metadata
                              THEN {Msg("log", "metadata",
                                        "Metadata written to:")}
                              ELSE {})
    /\ UNCHANGED <<cfgVars, title, mainVars, image_files, probe_stdout, issued,
                   cueVars, music_seen>>

\* a title of five words that wraps into two lines
MainTitle == <<300, 420, 380, 250, 510>>

NoCueState ==
    /\ consumed = <<>>
    /\ cues = <<>>
    /\ blocks = <<>>
    /\ vtt = <<>>
    /\ srt = <<>>

\* build_slideshow_ffmpeg called on its own, with any image list
InitCompile ==
    /\ pc = "build"
    /\ \E n \in 0..MaxImages : image_files = [i \in 1..n |-> FramePath(i)]
    /\ files \in SUBSET {BG_MUSIC_PATH, LOGO_PATH, SRT_PATH}
    /\ show_captions \in BOOLEAN
    /\ logo_style = DefaultLogo
    /\ probe_stdout = Garbage
    /\ issued = <<>>
    /\ err = ""
    /\ printed = {}
    /\ title = MainTitle
    /\ title_lines = <<>>
    /\ music_seen = <<>>
    /\ photos = <<>>
    /\ idx = 1
    /\ fetched = <<>>
    /\ NoCueState

NextCompile == BuildSlideshow

SpecCompile == InitCompile /\ [][NextCompile]_vars

(***************************************************************************)
(* build_slideshow_ffmpeg while another process creates or deletes the     *)
(* music file.  The call evaluates os.path.exists(music_path) at line 510, *)
(* at line 547 (only with a logo) and at line 560; it is taken in three    *)
(* steps, one per evaluation, and the other process can act between them.  *)
(***************************************************************************)
\* lines 491-511: the probe, the image and narration inputs, the music input
BuildInputs ==
    /\ pc = "build"
    /\ \E probe \in {Garbage, Num(25000000)} : probe_stdout' = probe
    /\ music_seen' = <<Exists(BG_MUSIC_PATH)>>
    /\ pc' = "build_video"
    /\ UNCHANGED <<files, cfgVars, image_files, issued, err, printed, mainVars,
                   cueVars, thumbVars>>

\* lines 513-556: the video graph, with logo_idx when there is a logo (without
\* one line 547 is not reached and the first answer is repeated)
BuildVideoGraph ==
    /\ pc = "build_video"
    /\ music_seen' = Append(music_seen,
                            IF Exists(LOGO_PATH) THEN Exists(BG_MUSIC_PATH)
                            ELSE music_seen[1])
    /\ pc' = "build_audio"
    /\ UNCHANGED <<files, cfgVars, image_files, probe_stdout, issued, err,
                   printed, mainVars, cueVars, thumbVars>>

\* lines 558-579: the audio graph, and run(cmd)
BuildAudioAndRun ==
    /\ pc = "build_audio"
    /\ \E returncode \in {0, 1} :
          /\ music_seen' = Append(music_seen, Exists(BG_MUSIC_PATH))
          /\ issued' = Append(issued,
                          build_slideshow_ffmpeg(image_files, AUDIO_PATH,
                              CallEnv(probe_stdout, music_seen[1],
                                      music_seen[2], Exists(BG_MUSIC_PATH),
                                      Exists(SRT_PATH), Exists(LOGO_PATH),
                                      show_captions, logo_style)))
          /\ IF returncode # 0
             THEN pc' = "failed" /\ err' = "Command failed" /\ files' = files
             ELSE pc' = "built" /\ err' = err /\ files' = files \cup {RAW_PATH}
          /\ printed' = printed \cup RunPrints(returncode)
    /\ UNCHANGED <<cfgVars, image_files, probe_stdout, mainVars, cueVars,
                   thumbVars>>

\* another process creates or deletes the music file during the call
OtherProcess ==
    /\ pc \in {"build_video", "build_audio"}
    /\ files' = IF Exists(BG_MUSIC_PATH) THEN files \ {BG_MUSIC_PATH}
                ELSE files \cup {BG_MUSIC_PATH}
    /\ UNCHANGED <<pc, cfgVars, image_files, probe_stdout, issued, err,
                   printed, music_seen, mainVars, cueVars, thumbVars>>

NextRace == BuildInputs \/ BuildVideoGraph \/ BuildAudioAndRun \/ OtherProcess

\* the call as main makes it: at least one image
InitRace == InitCompile /\ image_files # <<>>

SpecRace == InitRace /\ [][NextRace]_vars

\* the frame every slide is padded to: pad=1080:1920
FrameW == 1080
FrameH == 1920

\* LOGO_POS values: the four corners, and one in capitals
LogoPositions ==
    {<<"t", "l">>, <<"t", "r">>, <<"b", "l">>, <<"b", "r">>, <<"B", "L">>}
LogoMargins == {0, 28, 100}
\* scaled logo sizes, up to the whole frame
LogoWidths == {220, 980, 1052, 1080}
LogoHeights == {90, 1820, 1892, 1920}

\* build_slideshow_ffmpeg called on one image with a logo, for any logo
\* settings
InitLogo ==
    /\ pc = "build"
    /\ image_files = <<FramePath(1)>>
    /\ files = {LOGO_PATH}
    /\ show_captions = FALSE
    /\ logo_style \in {LogoStyle(p, m, w, h) :
                          p \in LogoPositions, m \in LogoMargins,
                          w \in LogoWidths, h \in LogoHeights}
    /\ probe_stdout = Garbage
    /\ issued = <<>>
    /\ err = ""
    /\ printed = {}
    /\ title = MainTitle
    /\ title_lines = <<>>
    /\ music_seen = <<>>
    /\ photos = <<>>
    /\ idx = 1
    /\ fetched = <<>>
    /\ NoCueState

NextLogo == BuildSlideshow

SpecLogo == InitLogo /\ [][NextLogo]_vars

\* a pipeline run
Init ==
    /\ pc = "start"
    /\ files \in SUBSET {BG_MUSIC_PATH, LOGO_PATH}
    /\ show_captions \in BOOLEAN
    /\ logo_style = DefaultLogo
    /\ photos = <<>>
    /\ idx = 1
    /\ fetched = <<>>
    /\ image_files = <<>>
    /\ probe_stdout = Garbage
    /\ issued = <<>>
    /\ err = ""
    /\ printed = {}
    /\ title = MainTitle
    /\ title_lines = <<>>
    /\ music_seen = <<>>
    /\ NoCueState

Narrate == SynthesizeTts(MainStreams)

Next ==
    \/ Start
    \/ SearchProduct
    \/ FetchDetails
    \/ BuildScript
    \/ Narrate
    \/ VttToSrt
    \/ FetchImage
    \/ CheckImages
    \/ BuildSlideshow
    \/ Finish

Spec == Init /\ [][Next]_vars

\* synthesize_tts_with_subs followed by vtt_to_srt, on any stream
InitCues ==
    /\ pc = "tts"
    /\ files = {}
    /\ show_captions = FALSE
    /\ logo_style = DefaultLogo
    /\ photos = <<>>
    /\ idx = 1
    /\ fetched = <<>>
    /\ image_files = <<>>
    /\ probe_stdout = Garbage
    /\ issued = <<>>
    /\ err = ""
    /\ printed = {}
    /\ title = MainTitle
    /\ title_lines = <<>>
    /\ music_seen = <<>>
    /\ NoCueState

Synthesize == SynthesizeTts(Streams)

NextCues == Synthesize \/ VttToSrt

SpecCues == InitCues /\ [][NextCues]_vars

(***************************************************************************)
(* vtt_to_srt on a block-subtitle source: a file written from blocks, each *)
(* a time-range line (<<>> when the block has none) and text lines, with a *)
(* blank line after every block and, optionally, the format declaration.   *)
(***************************************************************************)
TimeLine(s, e) == <<s, SP, ARROW, SP, e>>

\* 00:00:01.000 --> 00:00:02.500 and 00:01:03.000 --> 00:01:04.250
ValidTimes ==
    {TimeLine(Stamp("ts.", 0, 0, 1000), Stamp("ts.", 0, 0, 2500)),
     TimeLine(Stamp("ts.", 0, 1, 3000), Stamp("ts.", 0, 1, 4250))}

\* no time line at all, and 00:00:01,000 --> 00:00:02,500 (commas)
InvalidTimes ==
    {<<>>, TimeLine(Stamp("ts,", 0, 0, 1000), Stamp("ts,", 0, 0, 2500))}

\* "WEBVTT files", "left --> right", "at 00:00:09.000 --> 00:00:09.500 ok"
WebvttText == <<Tok("WEBVTT"), SP, Tok("files")>>
ArrowText == <<Tok("left"), SP, ARROW, SP, Tok("right")>>
RangeText ==
    <<Tok("at"), SP>>
    \o TimeLine(Stamp("ts.", 0, 0, 9000), Stamp("ts.", 0, 0, 9500))
    \o <<SP, Tok("ok")>>

PlainTexts == {<<Hello>>, <<Hello, <<Tok("big"), SP, Tok("World")>>>>}
BlockTexts ==
    PlainTexts \cup {<<>>, <<WebvttText>>, <<ArrowText>>, <<Hello, RangeText>>}

SourceBlocks ==
    {[time |-> t, text |-> x] : t \in ValidTimes \cup InvalidTimes,
                                x \in BlockTexts}

RECURSIVE BlockLines(_)
BlockLines(bs) ==
    IF bs = <<>> THEN <<>>
    ELSE (IF bs[1].time # <<>> THEN <<bs[1].time>> ELSE <<>>)
         \o bs[1].text \o <<<<>>>> \o BlockLines(Tail(bs))

SourceLines(header, bs) ==
    (IF header THEN <<<<Tok("WEBVTT")>>, <<>>>> ELSE <<>>) \o BlockLines(bs)

InitVtt ==
    /\ pc = "srt"
    /\ files = {VTT_PATH}
    /\ blocks \in UNION {[1..n -> SourceBlocks] : n \in 0..MaxBlocks}
    /\ \E header \in BOOLEAN : vtt = WrittenLines(SourceLines(header, blocks))
    /\ srt = <<>>
    /\ consumed = <<>>
    /\ cues = <<>>
    /\ show_captions = FALSE
    /\ logo_style = DefaultLogo
    /\ photos = <<>>
    /\ idx = 1
    /\ fetched = <<>>
    /\ image_files = <<>>
    /\ probe_stdout = Garbage
    /\ issued = <<>>
    /\ err = ""
    /\ printed = {}
    /\ title = MainTitle
    /\ title_lines = <<>>
    /\ music_seen = <<>>

NextVtt == VttToSrt

SpecVtt == InitVtt /\ [][NextVtt]_vars

(***************************************************************************)
(* create_thumbnail called on its own, for any title.                      *)
(***************************************************************************)
MaxWords == 4

\* word widths: short words, and words as wide as or wider than max_w
WordWidths == {90, 400, 700, 1177, 1300}

Titles == UNION {[1..n -> WordWidths] : n \in 0..MaxWords}

InitThumb ==
    /\ pc = "thumbnail"
    /\ files = {}
    /\ show_captions = FALSE
    /\ logo_style = DefaultLogo
    /\ title \in Titles
    /\ title_lines = <<>>
    /\ music_seen = <<>>
    /\ photos = <<>>
    /\ idx = 1
    /\ fetched = <<>>
    /\ image_files = <<>>
    /\ probe_stdout = Garbage
    /\ issued = <<>>
    /\ err = ""
    /\ printed = {}
    /\ NoCueState

NextThumb == CreateThumbnail

SpecThumb == InitThumb /\ [][NextThumb]_vars

(***************************************************************************)
(* Claims about build_slideshow_ffmpeg (checked under SpecCompile).        *)
(***************************************************************************)
\* The roles of a command's inputs, in the order they are supplied
Roles(plan) == [i \in 1..Len(plan.inputs) |-> plan.inputs[i].role]

\* The role order the input-ordering contract asks for
RoleOrder(n, music, logo) ==
    [i \in 1..n |-> "image"] \o <<"narration">>
    \o (IF music THEN <<"music">> ELSE <<>>)
    \o (IF logo THEN <<"logo">> ELSE <<>>)

\* The role each filter reads from the encoder input it names
RoleRead(op) ==
    CASE op = "scale_pad_setsar" -> "image"
      [] op = "logo_scale" -> "logo"
      [] op = "volume" -> "music"
      [] OTHER -> "narration"

\* Every "[i:v]" / "[i:a]" of the filter graph, with the filter that reads it
InputRefs(plan) ==
    LET nodes == plan.vf \o plan.af
    IN  UNION {{[op |-> nodes[j].op, i |-> nodes[j].ins[k].i] :
                  k \in {y \in 1..Len(nodes[j].ins) :
                           nodes[j].ins[y].k \in {"in_v", "in_a"}}} :
               j \in 1..Len(nodes)}

RefsOfRole(plan, role) == {r.i : r \in {x \in InputRefs(plan) : RoleRead(x.op) = role}}

\* C1: for N images (1..5) and every combination of music and logo, the inputs
\* are supplied as N images, narration, music (if present), logo (if present),
\* and every input index the filter graph names is the position of that role:
\* narration N, music N+1 iff music, logo N+1+(1 if music) iff logo.
C1_InputIndexTable ==
    \A c \in 1..Len(issued) :
        LET plan == issued[c]
            n == Len(image_files)
            musicExists == BG_MUSIC_PATH \in files
            logoExists == LOGO_PATH \in files
        IN  n \in 1..5 =>
              /\ Roles(plan) = RoleOrder(n, musicExists, logoExists)
              /\ \A i \in 1..n : plan.inputs[i].file = image_files[i]
              /\ \A r \in InputRefs(plan) :
                    /\ r.i + 1 \in 1..Len(plan.inputs)
                    /\ plan.inputs[r.i + 1].role = RoleRead(r.op)
              /\ RefsOfRole(plan, "image") = 0..(n - 1)
              /\ RefsOfRole(plan, "narration") = {n}
              /\ RefsOfRole(plan, "music") = IF musicExists THEN {n + 1} ELSE {}
              /\ RefsOfRole(plan, "logo") =
                    IF logoExists
                    THEN {n + 1 + (IF musicExists THEN 1 ELSE 0)}
                    ELSE {}

\* 5 images + music + logo: narration 5, music 6, logo 7
C1_Witness ==
    /\ Len(issued) = 1
    /\ Len(image_files) = 5
    /\ BG_MUSIC_PATH \in files /\ LOGO_PATH \in files
    /\ RefsOfRole(issued[1], "narration") = {5}
    /\ RefsOfRole(issued[1], "music") = {6}
    /\ RefsOfRole(issued[1], "logo") = {7}

\* C2: for every measured narration duration d, also when the probe prints
\* nothing float() accepts, the total satisfies 18.0 <= total <= 40.0, and
\* total = d whenever 18 <= d <= 40 (d = 10 gives 18, d = 50 gives 40).
C2_TotalClamped ==
    \A c \in 1..Len(issued) :
        LET total == issued[c].dur
        IN  /\ total.kind = "num"
            /\ MinDurUs <= total.us /\ total.us <= MaxDurUs
            /\ (probe_stdout.kind = "num" /\ MinDurUs <= probe_stdout.us
                    /\ probe_stdout.us <= MaxDurUs)
                 => total = probe_stdout
            /\ probe_stdout = Num(10000000) => total = Num(18000000)
            /\ probe_stdout = Num(50000000) => total = Num(40000000)

\* a 10 s narration has been clamped up to 18 s
C2_Witness ==
    /\ Len(issued) = 1
    /\ probe_stdout = Num(10000000)
    /\ issued[1].dur = Num(18000000)

\* C3: for n images (1..5), the "-t" value of each image input times n equals
\* the total within 1e-6 s (1 microsecond).
C3_PerSlideSumsToTotal ==
    \A c \in 1..Len(issued) :
        LET plan == issued[c]
            n == Len(image_files)
        IN  n \in 1..5 =>
              \A i \in 1..n :
                 Abs(plan.inputs[i].t * 1000 * n - plan.dur.us) <= 1

\* C4: called with an empty image list, build_slideshow_ffmpeg signals an error
\* and hands no command to the encoder.
C4_ZeroImagesRejected ==
    (pc # "build" /\ image_files = <<>>) => (issued = <<>> /\ err # "")

(***************************************************************************)
(* Claims about main (checked under Spec).                                 *)
(***************************************************************************)
\* the image files of a command, in input order
ImageInputFiles(plan) ==
    LET IsImage(x) == x.role = "image"
        sel == SelectSeq(plan.inputs, IsImage)
    IN  [i \in 1..Len(sel) |-> sel[i].file]

\* the frames whose fetch succeeded, in loop order
OkFrames ==
    LET IsOk(i) == fetched[i] = "ok"
        sel == SelectSeq([i \in 1..Len(fetched) |-> i], IsOk)
    IN  [i \in 1..Len(sel) |-> FramePath(sel[i])]

LoopDone == photos # <<>> /\ Len(fetched) = Len(Urls(photos))
AnyOk == \E i \in 1..Len(fetched) : fetched[i] = "ok"

\* C5: in a pipeline run, a failed image is skipped without aborting the run;
\* the image list handed to build_slideshow_ffmpeg is exactly the fetched
\* images in their original order; the compiler is invoked iff at least one
\* image succeeded; when none succeeds the run fails with an error and the
\* encoder is never invoked.
C5_FailedImagesSkipped ==
    /\ (fetched # <<>> /\ ~LoopDone) => (pc = "images" /\ err = "")
    /\ Len(issued) <= 1
    /\ \A c \in 1..Len(issued) :
          /\ LoopDone
          /\ AnyOk
          /\ ImageInputFiles(issued[c]) = OkFrames
    /\ (LoopDone /\ ~AnyOk /\ pc # "images")
         => (pc = "failed" /\ err = "No images to build video" /\ issued = <<>>)
    /\ (LoopDone /\ AnyOk /\ pc \notin {"images", "build"}) => Len(issued) = 1

\* the first and third image failed, the second and fourth were compiled
C5_Witness ==
    /\ fetched = <<"fail", "ok", "fail", "ok">>
    /\ Len(issued) = 1
    /\ ImageInputFiles(issued[1]) = <<FramePath(2), FramePath(4)>>
    /\ pc = "done"

\* C6: whenever main invokes the compiler, the number N of images it passes
\* satisfies 1 <= N <= 5, for every photo list and every pattern of fetches.
C6_AtMostFiveImages ==
    \A c \in 1..Len(issued) :
        /\ 1 <= Len(ImageInputFiles(issued[c]))
        /\ Len(ImageInputFiles(issued[c])) <= 5

(***************************************************************************)
(* Claims about the caption path (checked under SpecCues and SpecVtt).     *)
(***************************************************************************)
\* the sentence-boundary events delivered so far whose text is not blank
SpokenEvents ==
    LET Spoken(ch) ==
            /\ ch.type \in {"SentenceBoundary", "sentenceboundary"}
            /\ \E i \in 1..Len(ch.text) : ch.text[i].c \notin {"sp", "nl"}
    IN  SelectSeq(consumed, Spoken)

\* C7: every sentence-boundary event with non-empty stripped text gives exactly
\* one cue, with start = offset ticks (offset/10,000,000 s) and
\* end = offset + max(duration, 1) ticks; events with empty stripped text give
\* none (offset 10,000,000, duration 15,000,000, "Hello": start 1.0 s,
\* end 2.5 s, text "Hello", written as 00:00:01.000 --> 00:00:02.500).
C7_CueFromTicks ==
    /\ Len(cues) = Len(SpokenEvents)
    /\ \A i \in 1..Len(cues) :
          LET ev == SpokenEvents[i]
          IN  /\ cues[i].start = ev.offset
              /\ cues[i].end = ev.offset
                                + (IF ev.duration >= 1 THEN ev.duration ELSE 1)
              /\ cues[i].txt = Strip(ev.text)
    /\ (pc = "srt"
        /\ consumed = <<Chunk("SentenceBoundary", 10000000, 15000000, Hello)>>)
         => /\ cues = <<[start |-> 1 * TicksPerSecond,
                         end |-> 25 * (TicksPerSecond \div 10),
                         txt |-> Hello]>>
            /\ vtt[3] = TimeLine(Stamp("ts.", 0, 0, 1000),
                                 Stamp("ts.", 0, 0, 2500))
            /\ vtt[4] = Hello

\* a zero-duration event and a blank event have been processed
C7_Witness ==
    /\ pc = "srt"
    /\ Len(consumed) = 3
    /\ consumed[1] = Chunk("SentenceBoundary", 10000000, 0, Hello)
    /\ consumed[2] = Chunk("SentenceBoundary", 30000000, 15000000, <<SP>>)
    /\ consumed[3] = Chunk("SentenceBoundary", 10000000, 15000000, Hello)
    /\ Len(cues) = 2
    /\ cues[1].end = 10000001

IsVttTimeLine(ln) ==
    Len(ln) = 5 /\ ln[1].c = "ts." /\ ln[3] = ARROW /\ ln[5].c = "ts."
IsSrtTimeLine(ln) ==
    Len(ln) = 5 /\ ln[1].c = "ts," /\ ln[3] = ARROW /\ ln[5].c = "ts,"

\* C8: every cue written to the caption file satisfies 0 <= start < end, where
\* start and end are the instants its timestamps denote.
C8_WrittenCueNotEmpty ==
    \A i \in 1..Len(vtt) :
        IsVttTimeLine(vtt[i])
          => /\ 0 <= Instant(vtt[i][1])
             /\ Instant(vtt[i][1]) < Instant(vtt[i][5])

\* the time-range lines of the subtitle file, in file order
SrtTimeLines == SelectSeq(srt, IsSrtTimeLine)

\* C9: the cue sequence produced by synthesize_tts_with_subs followed by
\* vtt_to_srt is sorted ascending by start and no cue starts before the
\* previous cue's end, for events in any arrival order.
C9_CuesSortedDisjoint ==
    \A i \in 1..(Len(SrtTimeLines) - 1) :
        /\ Instant(SrtTimeLines[i][1]) <= Instant(SrtTimeLines[i + 1][1])
        /\ Instant(SrtTimeLines[i][5]) <= Instant(SrtTimeLines[i + 1][1])

\* the blocks of a subtitle file: runs of lines between empty lines
RECURSIVE FileBlocks(_, _)
FileBlocks(lines, cur) ==
    IF lines = <<>> THEN (IF cur = <<>> THEN <<>> ELSE <<cur>>)
    ELSE IF Head(lines) = <<>>
         THEN (IF cur = <<>> THEN <<>> ELSE <<cur>>) \o FileBlocks(Tail(lines), <<>>)
         ELSE FileBlocks(Tail(lines), Append(cur, Head(lines)))

\* an emitted block read as a cue: index, start, end, text lines
SrtCue(b) ==
    [n |-> b[1][1].ms,
     start |-> [b[2][1] EXCEPT !.c = "ts"],
     end |-> [b[2][5] EXCEPT !.c = "ts"],
     text |-> SubSeq(b, 3, Len(b))]

WellFormed(b) == Len(b) >= 2 /\ Len(b[1]) = 1 /\ b[1][1].c = "idx" /\ IsSrtTimeLine(b[2])

IsValidBlock(b) == b.time \in ValidTimes /\ b.text # <<>>

\* C10: for a source whose blocks each have a valid time-range line and at
\* least one text line, vtt_to_srt emits the same number of cues in the same
\* order, each with the same start and end instants (only '.' replaced by ',')
\* and exactly the same text lines, whatever the text.
C10_ConversionPreservesCues ==
    (pc = "images" /\ \A i \in 1..Len(blocks) : IsValidBlock(blocks[i]))
      => LET out == FileBlocks(srt, <<>>)
         IN  /\ Len(out) = Len(blocks)
             /\ \A i \in 1..Len(out) :
                   /\ WellFormed(out[i])
                   /\ SrtCue(out[i]).start = [blocks[i].time[1] EXCEPT !.c = "ts"]
                   /\ SrtCue(out[i]).end = [blocks[i].time[5] EXCEPT !.c = "ts"]
                   /\ out[i][2][1].c = "ts,"
                   /\ SrtCue(out[i]).text = blocks[i].text

(***************************************************************************)
(* Claims about the filter graph (checked under SpecCompile).              *)
(***************************************************************************)
\* the nodes of a plan's video graph with the given filter
VideoNodes(plan, op) ==
    LET Is(x) == x.op = op
    IN  SelectSeq(plan.vf, Is)

\* C11: the subtitle-burn node is present, reading the concat output, iff
\* captions are enabled and the caption file exists; the overlay node is
\* present, reading the current video label, iff a logo exists; the video label
\* mapped as output is the overlay output when a logo exists, otherwise the
\* subtitle output when captions are burned, otherwise the concat output.
C11_VideoChainWiring ==
    \A c \in 1..Len(issued) :
        LET plan == issued[c]
            burned == show_captions /\ SRT_PATH \in files
            logoExists == LOGO_PATH \in files
            subs == VideoNodes(plan, "subtitles")
            overlays == VideoNodes(plan, "overlay")
            current == IF burned THEN Pad("vsub", 0) ELSE Pad("vout", 0)
        IN  /\ Len(VideoNodes(plan, "concat")) = 1
            /\ VideoNodes(plan, "concat")[1].out = Pad("vout", 0)
            /\ Len(subs) = (IF burned THEN 1 ELSE 0)
            /\ \A i \in 1..Len(subs) :
                  subs[i].ins = <<Pad("vout", 0)>> /\ subs[i].out = Pad("vsub", 0)
            /\ Len(overlays) = (IF logoExists THEN 1 ELSE 0)
            /\ \A i \in 1..Len(overlays) :
                  /\ overlays[i].ins[1] = current
                  /\ overlays[i].ins[2] = Pad("logo", 0)
                  /\ overlays[i].out = Pad("vlogo", 0)
            /\ plan.vmap = (IF logoExists THEN Pad("vlogo", 0) ELSE current)

\* captions are enabled but the caption file is absent, with a logo: the
\* overlay reads the concat output and its output is mapped
C11_Witness ==
    /\ Len(issued) = 1
    /\ show_captions /\ SRT_PATH \notin files /\ LOGO_PATH \in files
    /\ VideoNodes(issued[1], "subtitles") = <<>>
    /\ VideoNodes(issued[1], "overlay")[1].ins[1] = Pad("vout", 0)
    /\ issued[1].vmap = Pad("vlogo", 0)

\* C12: when captions are enabled but no usable cue source is available (the
\* caption file is missing, or producing it fails), the run is not aborted for
\* that reason, the video is still compiled, without the subtitle-burn node,
\* and a warning about the captions is surfaced to the caller.
C12_MissingCaptionsWarned ==
    /\ ~(show_captions /\ pc = "failed" /\ err = "tts")
    /\ (show_captions /\ SRT_PATH \notin files /\ image_files # <<>>
            /\ pc \in {"built", "done"})
         => /\ Len(issued) = 1
            /\ VideoNodes(issued[1], "subtitles") = <<>>
            /\ \E m \in printed : m.about = "captions"

\* The length of an amix output, given the lengths of its inputs in input
\* order: the first input's with duration=first, the shortest with
\* duration=shortest, the longest otherwise
AmixLength(node, lens) ==
    CASE node.duration = "first" -> lens[1]
      [] node.duration = "shortest" -> Min(lens[1], lens[2])
      [] OTHER -> Max(lens[1], lens[2])

\* lengths of a narration and of a music file, in seconds
AudioLengths == {5, 18, 25, 40, 90}

\* C13: with music, the audio chain scales the music input's volume by the mix
\* ratio and mixes it with the narration bound as the first, duration-giving
\* mix input, so the mix lasts exactly as long as the narration; without
\* music the narration input passes through unmodified; in both cases the one
\* final audio label is the one mapped as the audio output.
C13_AudioChain ==
    \A c \in 1..Len(issued) :
        LET plan == issued[c]
            n == Len(image_files)
            musicExists == BG_MUSIC_PATH \in files
            af == plan.af
        IN  /\ plan.inputs[n + 1].role = "narration"
            /\ IF musicExists
               THEN /\ Len(af) = 2
                    /\ plan.inputs[n + 2].role = "music"
                    /\ af[1].op = "volume"
                    /\ af[1].ins = <<Pad("in_a", n + 1)>>
                    /\ af[1].vol = 15
                    /\ af[2].op = "amix"
                    /\ af[2].n = 2
                    /\ af[2].ins = <<Pad("in_a", n), af[1].out>>
                    /\ \A narration \in AudioLengths, music \in AudioLengths :
                          AmixLength(af[2], <<narration, music>>) = narration
               ELSE /\ Len(af) = 1
                    /\ af[1].op = "anull"
                    /\ af[1].ins = <<Pad("in_a", n)>>
            /\ plan.amap = af[Len(af)].out
            /\ \A i \in 1..(Len(af) - 1) : af[i].out # plan.amap

\* three images with music: narration is input 3, music input 4
C13_Witness ==
    /\ Len(issued) = 1
    /\ Len(image_files) = 3
    /\ BG_MUSIC_PATH \in files
    /\ issued[1].af[2].ins = <<Pad("in_a", 3), Pad("am", 0)>>
    /\ issued[1].af[2].duration = "first"
    /\ issued[1].amap = Pad("aout", 0)

(***************************************************************************)
(* Claims about the logo position (checked under SpecLogo).                *)
(***************************************************************************)
\* The value of an overlay position expression: W or H is the size of the
\* main input (main), w or h that of the overlaid input (over)
EvalExpr(e, main, over) ==
    IF e.form = "m" THEN e.margin ELSE main - over - e.margin

\* C14: for every corner setting tl, tr, bl, br, every margin >= 0 and every
\* scaled logo size w x h with w + margin <= 1080 and h + margin <= 1920, the
\* overlay position puts the logo rectangle inside the 1080x1920 frame, at the
\* named corner, the margin away from both adjacent edges.
C14_LogoInsideFrame ==
    \A c \in 1..Len(issued) :
        \A i \in 1..Len(VideoNodes(issued[c], "overlay")) :
            LET ov == VideoNodes(issued[c], "overlay")[i]
                pos == logo_style.pos
                m == logo_style.margin
                w == logo_style.w
                h == logo_style.h
                x == EvalExpr(ov.x, FrameW, w)
                y == EvalExpr(ov.y, FrameH, h)
            IN  (/\ pos \in {<<"t", "l">>, <<"t", "r">>, <<"b", "l">>, <<"b", "r">>}
                 /\ m >= 0
                 /\ w + m <= 1080
                 /\ h + m <= 1920)
                  => /\ 0 <= x /\ x + w <= 1080
                     /\ 0 <= y /\ y + h <= 1920
                     /\ pos[2] = "l" => x = m
                     /\ pos[2] = "r" => 1080 - (x + w) = m
                     /\ pos[1] = "t" => y = m
                     /\ pos[1] = "b" => 1920 - (y + h) = m

\* bottom right, margin 28, a 220 x 90 logo: drawn at (832, 1802)
C14_Witness ==
    /\ Len(issued) = 1
    /\ logo_style = LogoStyle(<<"b", "r">>, 28, 220, 90)
    /\ EvalExpr(VideoNodes(issued[1], "overlay")[1].x, FrameW, 220) = 832
    /\ EvalExpr(VideoNodes(issued[1], "overlay")[1].y, FrameH, 90) = 1802

(***************************************************************************)
(* Claims about the thumbnail (checked under SpecThumb).                   *)
(***************************************************************************)
\* C15: for every title, also one with a single word wider than the limit, the
\* word wrap emits at most 3 lines and every emitted line is at most 92% of
\* the 1280-pixel canvas wide (1177.6 pixels).
C15_WrapWithinLimits ==
    /\ Len(title_lines) <= 3
    /\ \A i \in 1..Len(title_lines) :
          100 * textlength(title_lines[i]) <= 92 * 1280

(***************************************************************************)
(* Claims about the files of a pipeline run (checked under Spec).          *)
(***************************************************************************)
\* the temporary files of a run: the normalized frames and the intermediate
\* caption files
TempFiles == {FramePath(i) : i \in 1..MaxPhotos} \cup {VTT_PATH, SRT_PATH}

\* C16: on every exit path of a pipeline run, success or failure at any stage,
\* the temporary files the run created no longer exist when the run ends.
C16_TempFilesRemoved ==
    pc \in {"done", "failed"} => files \cap TempFiles = {}

\* C17: music is optional: a run of main started when no music file exists is
\* not ended by its absence; it still reaches build_slideshow_ffmpeg, and the
\* command it issues has the narration alone as its audio stream.
C17_MusicOptional ==
    BG_MUSIC_PATH \notin files
      => /\ ~(pc = "failed" /\ err = "name 'BG_MUSIC_URL' is not defined")
         /\ \A c \in 1..Len(issued) :
               /\ Len(issued[c].af) = 1
               /\ issued[c].af[1].op = "anull"

(***************************************************************************)
(* Claims about vtt_to_srt's blocks (checked under SpecVtt).               *)
(***************************************************************************)
\* the source blocks that have a valid time-range line and a text line
ValidBlocks == SelectSeq(blocks, IsValidBlock)

\* C18: vtt_to_srt emits exactly one block per source block that has both a
\* valid time-range line and at least one text line, in source order; blocks
\* lacking either, and the leading format declaration, are dropped; the
\* emitted blocks are numbered 1, 2, ..., k without gaps, and consecutive
\* emitted blocks are separated by exactly one blank line.
C18_OneBlockPerValidBlock ==
    pc = "images"
      => LET out == FileBlocks(srt, <<>>)
         IN  /\ Len(out) = Len(ValidBlocks)
             /\ \A i \in 1..Len(out) :
                   /\ WellFormed(out[i])
                   /\ SrtCue(out[i]).n = i
                   /\ i <= Len(ValidBlocks)
                        => /\ SrtCue(out[i]).start
                                = [ValidBlocks[i].time[1] EXCEPT !.c = "ts"]
                           /\ SrtCue(out[i]).end
                                = [ValidBlocks[i].time[5] EXCEPT !.c = "ts"]
             /\ \A j \in 1..(Len(srt) - 1) : ~(srt[j] = <<>> /\ srt[j + 1] = <<>>)
             /\ srt # <<>> => srt[1] # <<>>

(***************************************************************************)
(* Claims about a call that races with another process (SpecRace).         *)
(***************************************************************************)
\* C19: within one build_slideshow_ffmpeg call the three decisions that depend
\* on the music file's existence (appending the music input, computing the logo
\* input index, choosing the audio chain) always agree, even when another
\* process creates or deletes the file during the call; so every input index
\* of the filter graph names an input that was supplied, in the intended role.
C19_MusicDecisionsAgree ==
    \A c \in 1..Len(issued) :
        LET plan == issued[c]
            n == Len(image_files)
            musicInput == \E i \in 1..Len(plan.inputs) :
                              plan.inputs[i].role = "music"
            mixed == plan.af[1].op = "volume"
        IN  /\ musicInput = mixed
            /\ \A i \in RefsOfRole(plan, "logo") : (i = n + 2) = musicInput
            /\ \A r \in InputRefs(plan) :
                  /\ r.i + 1 \in 1..Len(plan.inputs)
                  /\ plan.inputs[r.i + 1].role = RoleRead(r.op)

(***************************************************************************)
(* Claims about the written timestamps (checked under SpecCues).           *)
(***************************************************************************)
\* a timestamp's fields are in range and it denotes the tick count within 1 ms
StampDenotes(ts, ticks) ==
    /\ ts.m < 60
    /\ ts.ms < 60000
    /\ Abs(Instant(ts) * TicksPerMs - ticks) <= TicksPerMs

\* C20: for every non-negative tick count t, the timestamp HH:MM:SS.mmm that
\* _ticks_to_vtt_ts produces has a minutes field below 60 and a seconds field
\* below 60.000, and denotes an instant within one millisecond of
\* t / 10,000,000 s, also when the seconds round up at a minute boundary
\* (59.9996 s).
C20_TimestampFieldsInRange ==
    vtt # <<>>
      => \A i \in 1..Len(cues) :
            LET ln == vtt[3 * i]
            IN  /\ IsVttTimeLine(ln)
                /\ cues[i].start >= 0 => StampDenotes(ln[1], cues[i].start)
                /\ cues[i].end >= 0 => StampDenotes(ln[5], cues[i].end)

====
